---------------------------- MODULE Spec2Model ----------------------------
(***************************************************************************)
(* The 2048 cog (src/twenty/twenty.py): the board engine (execute_move,    *)
(* check_left/right/up/down, columize, rowize, add_number) and the session *)
(* loop of Twenty.start that drives it from reaction events.               *)
(*                                                                         *)
(* A board is a function [0..3 -> [0..3 -> Nat]], indexed board[x][y] as   *)
(* in the source; the empty marker "_" is the value E.                     *)
(*                                                                         *)
(* Beside it: a shift at the recycling plant                               *)
(* (src/recyclingplant/recyclingplant.py) and the price of animals         *)
(* (EvolutionUtils.get_total_price, src/evolution/utils.py).               *)
(***************************************************************************)
EXTENDS Integers, Sequences, FiniteSets

VARIABLES
    board,   \* start(): the local `board` (the list object the session holds)
    last,    \* start(): the local `last`, read by check()
    pc,      \* "wait" | "ended" (session); "call" | "returned" (engine call);
             \* "shift" (recycling plant); "price" | "priced" (get_total_price)
    out,     \* the texts sent with ctx.send, in order
    idle,    \* time spent in the current wait_for call
    moves,   \* number of accepted inputs so far (bounded by MaxMoves)
    ev,      \* what became of the last reaction_add event delivered
    cause,   \* why start() returned: "none" while it runs
    call,    \* the engine call under test: its arguments
    ret,     \* the engine call under test: what it returned
    content, \* the content of the board message of the session
    sessions, \* the sessions that run side by side, one record for each
    shift    \* recyclingplant(): the locals of a shift at the recycling plant

vars == <<board, last, pc, out, idle, moves, ev, cause, call, ret, content,
          sessions, shift>>

-----------------------------------------------------------------------------
(* Bounds of the model *)

\* tiles of the input boards of an engine call are 2^1 .. 2^MaxExp
MaxExp == 2

\* accepted inputs per session
MaxMoves == 2

\* accepted moves of two sessions side by side, of both together
MaxJointMoves == 1

\* tiles of the boards that are rendered are 2^1 .. 2^MaxRenderExp
MaxRenderExp == 11

\* the clock of a wait advances in steps of TickStep time units
TickStep == 150

\* wrong answers and unrecognized answers of a shift at the recycling plant
MaxWrong == 3

MaxOther == 2

\* the levels, the animals bought before and the amounts of the purchases
\* that are priced
MaxLevel == 20

MaxBought == 3

MaxAmount == 3

-----------------------------------------------------------------------------
(* Values *)

\* the empty marker "_"
E == 0

Idx == 0 .. 3

RECURSIVE Pow2(_)
Pow2(n) == IF n = 0 THEN 1 ELSE 2 * Pow2(n - 1)

Row(a, b, c, d) == [y \in Idx |-> <<a, b, c, d>>[y + 1]]

Grid(r0, r1, r2, r3) == [x \in Idx |-> <<r0, r1, r2, r3>>[x + 1]]

Range(f) == {f[i] : i \in DOMAIN f}

EmptyRow == Row(E, E, E, E)

\* start(): the board a session begins with
StartBoard == Grid(EmptyRow, EmptyRow, EmptyRow, Row(E, E, E, 2))

RECURSIVE SumTo(_, _)
SumTo(f, n) == IF n < 0 THEN 0 ELSE f[n] + SumTo(f, n - 1)

\* the number of non-empty cells of a board
Count(b) == Cardinality({p \in Idx \X Idx : b[p[1]][p[2]] # E})

\* the sum of the tile values of a board (E counts 0)
Total(b) == SumTo([x \in Idx |-> SumTo(b[x], 3)], 3)

Empties(b) == {p \in Idx \X Idx : b[p[1]][p[2]] = E}

-----------------------------------------------------------------------------
(* The merge pass *)

\* row[i] with Python's indexing: a negative i counts from the end
At(row, i) == row[IF i < 0 THEN i + 4 ELSE i]

\* MergeInto without the assignment that clears the absorbed cell
MergeIntoKeep(row, y, j) == [row EXCEPT ![y] = row[y] + At(row, j)]

\* board[x][y] = board[x][y] + board[x][j]; board[x][j] = "_"
MergeInto(row, y, j) ==
    [row EXCEPT ![y] = row[y] + At(row, j), ![IF j < 0 THEN j + 4 ELSE j] = E]

\* LookAhead without the test that the two cells are equal
LookAheadAny(row, y) ==
    IF y + 1 > 3 THEN [row |-> row, moved |-> FALSE]
    ELSE IF row[y + 1] # E
    THEN [row |-> MergeInto(row, y, y + 1), moved |-> TRUE]
    ELSE IF y + 2 > 3 THEN [row |-> row, moved |-> FALSE]
    ELSE IF row[y + 2] # E
    THEN [row |-> MergeInto(row, y, y + 2), moved |-> TRUE]
    ELSE IF y + 3 > 3 THEN [row |-> row, moved |-> FALSE]
    ELSE IF row[y + 3] # E
    THEN [row |-> MergeInto(row, y, y + 3), moved |-> TRUE]
    ELSE [row |-> row, moved |-> FALSE]

\* LookAhead that looks at the adjacent cell only
LookAheadAdjacent(row, y) ==
    IF y + 1 > 3 THEN [row |-> row, moved |-> FALSE]
    ELSE IF row[y + 1] # E /\ row[y] = row[y + 1]
    THEN [row |-> MergeInto(row, y, y + 1), moved |-> TRUE]
    ELSE [row |-> row, moved |-> FALSE]

\* The body of check_left's inner loop for one y: the try block.  An index
\* beyond 3 raises IndexError, which ends the block with the row as it is.
LookAhead(row, y) ==
    IF y + 1 > 3 THEN [row |-> row, moved |-> FALSE]
    ELSE IF row[y + 1] # E
    THEN IF row[y] = row[y + 1]
         THEN [row |-> MergeInto(row, y, y + 1), moved |-> TRUE]
         ELSE [row |-> row, moved |-> FALSE]
    ELSE IF y + 2 > 3 THEN [row |-> row, moved |-> FALSE]
    ELSE IF row[y + 2] # E
    THEN IF row[y] = row[y + 2]
         THEN [row |-> MergeInto(row, y, y + 2), moved |-> TRUE]
         ELSE [row |-> row, moved |-> FALSE]
    ELSE IF y + 3 > 3 THEN [row |-> row, moved |-> FALSE]
    ELSE IF row[y + 3] # E
    THEN IF row[y] = row[y + 3]
         THEN [row |-> MergeInto(row, y, y + 3), moved |-> TRUE]
         ELSE [row |-> row, moved |-> FALSE]
    ELSE [row |-> row, moved |-> FALSE]

\* The body of check_right's inner loop for one y.  y - k < 0 is a valid
\* (negative) Python index, so nothing is raised; the `and y - k >= 0`
\* makes the branch fail and the next elif is tried.
LookBehind(row, y) ==
    IF At(row, y - 1) # E /\ y - 1 >= 0
    THEN IF row[y] = At(row, y - 1)
         THEN [row |-> MergeInto(row, y, y - 1), moved |-> TRUE]
         ELSE [row |-> row, moved |-> FALSE]
    ELSE IF At(row, y - 2) # E /\ y - 2 >= 0
    THEN IF row[y] = At(row, y - 2)
         THEN [row |-> MergeInto(row, y, y - 2), moved |-> TRUE]
         ELSE [row |-> row, moved |-> FALSE]
    ELSE IF At(row, y - 3) # E /\ y - 3 >= 0
    THEN IF row[y] = At(row, y - 3)
         THEN [row |-> MergeInto(row, y, y - 3), moved |-> TRUE]
         ELSE [row |-> row, moved |-> FALSE]
    ELSE [row |-> row, moved |-> FALSE]

\* ScanAhead without the break: the scan goes on after a merge
RECURSIVE ScanAheadNoBreak(_, _)
ScanAheadNoBreak(row, y) ==
    IF y > 3 THEN [row |-> row, moved |-> FALSE]
    ELSE LET s == LookAhead(row, y)
             t == ScanAheadNoBreak(s.row, y + 1)
         IN  [row |-> t.row, moved |-> s.moved \/ t.moved]

\* for y in range(len(board[x])): ... if moved: break   (check_left/check_down)
RECURSIVE ScanAhead(_, _)
ScanAhead(row, y) ==
    IF y > 3 THEN [row |-> row, moved |-> FALSE]
    ELSE LET s == LookAhead(row, y)
         IN  IF s.moved THEN s ELSE ScanAhead(s.row, y + 1)

\* for y in range(len(board[x])): ... if moved: break   (check_right/check_up)
RECURSIVE ScanBehind(_, _)
ScanBehind(row, y) ==
    IF y > 3 THEN [row |-> row, moved |-> FALSE]
    ELSE LET s == LookBehind(row, y)
         IN  IF s.moved THEN s ELSE ScanBehind(s.row, y + 1)

check_left(b) == [x \in Idx |-> ScanAhead(b[x], 0).row]

check_right(b) == [x \in Idx |-> ScanBehind(b[x], 0).row]

check_up(b) == [x \in Idx |-> ScanBehind(b[x], 0).row]

check_down(b) == [x \in Idx |-> ScanAhead(b[x], 0).row]

-----------------------------------------------------------------------------
(* columize, rowize *)

\* new_board[c] = [board[3][c], board[2][c], board[1][c], board[0][c]]
columize(b) == [x \in Idx |-> [y \in Idx |-> b[3 - y][x]]]

\* rowize as a transposition: new_board[r] = [board[0][r], ..., board[3][r]]
rowizeTransposed(b) == [x \in Idx |-> [y \in Idx |-> b[y][x]]]

\* new_board[r] = [board[0][3-r], board[1][3-r], board[2][3-r], board[3][3-r]]
rowize(b) == [x \in Idx |-> [y \in Idx |-> b[y][3 - x]]]

-----------------------------------------------------------------------------
(* The compaction pass: the three while loops of execute_move, per row *)

\* SlideLow0 with `if` in the place of `while`: one shift at most
SlideLow0Once(r) ==
    IF r[0] = E /\ (r[1] # E \/ r[2] # E \/ r[3] # E)
    THEN Row(r[1], r[2], r[3], E)
    ELSE r

RECURSIVE SlideLow0(_), SlideLow1(_), SlideLow2(_)
SlideLow0(r) ==
    IF r[0] = E /\ (r[1] # E \/ r[2] # E \/ r[3] # E)
    THEN SlideLow0(Row(r[1], r[2], r[3], E))
    ELSE r

SlideLow1(r) ==
    IF r[1] = E /\ (r[2] # E \/ r[3] # E)
    THEN SlideLow1(Row(r[0], r[2], r[3], E))
    ELSE r

SlideLow2(r) ==
    IF r[2] = E /\ r[3] # E
    THEN SlideLow2(Row(r[0], r[1], r[3], E))
    ELSE r

\* towards index 0: the loops of the "left" and "down" branches
SlideLow(r) == SlideLow2(SlideLow1(SlideLow0(r)))

RECURSIVE SlideHigh3(_), SlideHigh2(_), SlideHigh1(_)
SlideHigh3(r) ==
    IF r[3] = E /\ (r[2] # E \/ r[1] # E \/ r[0] # E)
    THEN SlideHigh3(Row(E, r[0], r[1], r[2]))
    ELSE r

SlideHigh2(r) ==
    IF r[2] = E /\ (r[1] # E \/ r[0] # E)
    THEN SlideHigh2(Row(E, r[0], r[1], r[3]))
    ELSE r

SlideHigh1(r) ==
    IF r[1] = E /\ r[0] # E
    THEN SlideHigh1(Row(E, r[0], r[2], r[3]))
    ELSE r

\* towards index 3: the loops of the "right" and "up" branches
SlideHigh(r) == SlideHigh1(SlideHigh2(SlideHigh3(r)))

-----------------------------------------------------------------------------
(* execute_move and add_number *)

Dirs == {"up", "down", "left", "right"}

\* move.lower(), on the spellings the model passes in
Lower(move) ==
    CASE move \in {"LEFT", "Left"} -> "left"
      [] move \in {"RIGHT", "Right"} -> "right"
      [] move \in {"UP", "Up"} -> "up"
      [] move \in {"DOWN", "Down"} -> "down"
      [] OTHER -> move

\* execute_move up to line 143: the merge pass and the compaction pass of
\* the branch that `move` selects (move is one of Dirs)
MergeCompact(move, b) ==
    CASE move = "left" -> LET nb == check_left(b)
                          IN  [x \in Idx |-> SlideLow(nb[x])]
      [] move = "right" -> LET nb == check_right(b)
                           IN  [x \in Idx |-> SlideHigh(nb[x])]
      [] move = "down" -> LET nb == check_down(columize(b))
                          IN  rowize([x \in Idx |-> SlideLow(nb[x])])
      [] move = "up" -> LET nb == check_up(columize(b))
                        IN  rowize([x \in Idx |-> SlideHigh(nb[x])])

\* the number of merges the merge pass of `move` performs on b: the rows
\* (columns) whose scan ends with moved = True
Merges(move, b) ==
    LET lines == IF move \in {"left", "right"} THEN b ELSE columize(b)
        ahead == move \in {"left", "down"}
    IN  Cardinality({x \in Idx :
            IF ahead THEN ScanAhead(lines[x], 0).moved
                     ELSE ScanBehind(lines[x], 0).moved})

\* joining = random.randint(0, 100): the draws
JoinDraws == 0 .. 100

\* if joining < 85: joining = 2 else: joining = 4
Joining(j) == IF j < 85 THEN 2 ELSE 4

\* the values a new tile can have: Joining over every draw
JoinValues == {Joining(j) : j \in JoinDraws}

\* Columns without the loop that redraws while the cell is taken
ColumnsAny(b, row) ==
    LET zeroes == {y \in Idx : b[row][y] = E}
    IN  IF Cardinality(zeroes) = 1 THEN zeroes ELSE Idx

\* The columns add_number can end with for a row that holds "_": the index
\* of the only "_", or else a draw of 0..3 repeated until the cell is "_".
Columns(b, row) ==
    LET zeroes == {y \in Idx : b[row][y] = E}
    IN  IF Cardinality(zeroes) = 1
        THEN {CHOOSE y \in Idx : b[row][y] = E /\ \A z \in Idx : z < y => b[row][z] # E}
        ELSE {column \in Idx : b[row][column] = E}

\* add_number without the retry: a drawn row without "_" gives "Lost"
add_numberOnce(b) ==
    UNION {IF \E y \in Idx : b[row][y] = E
           THEN {[msg |-> "", board |-> [b EXCEPT ![row][column] = joining]] :
                    column \in Columns(b, row), joining \in JoinValues}
           ELSE {[msg |-> "Lost", board |-> b]}
           : row \in Idx}

\* add_number(board): the set of results [msg, board].  row is drawn from
\* 0..3; a row without "_" makes the function call itself for a new draw.
\* With no "_" on the board every draw recurses, the recursion budget runs
\* out inside random.randint and the except clause returns "Lost" with the
\* board as it is.  With a "_" on the board the draws are taken to end at a
\* row that holds one: the other outcome, a run of draws of full rows as
\* long as the whole recursion budget (about a thousand frames), has
\* probability at most (3/4)^990 and is left out.
add_number(b) ==
    LET open == {row \in Idx : \E y \in Idx : b[row][y] = E}
    IN  IF open = {}
        THEN {[msg |-> "Lost", board |-> b]}
        ELSE UNION {
               {[msg |-> "", board |-> [b EXCEPT ![row][column] = joining]] :
                    column \in Columns(b, row), joining \in JoinValues}
               : row \in open}

\* execute_move that skips add_number when merge and compaction changed
\* nothing (the rule of the original game)
execute_moveNoSpawn(move, b) ==
    LET m == Lower(move)
    IN  UNION {IF mc = b /\ Empties(b) # {}
               THEN {[msg |-> "", nb |-> mc, arg |-> b, mc |-> mc]}
               ELSE {[msg |-> IF a.msg = "Lost" THEN "Lost" ELSE "",
                      nb |-> a.board,
                      arg |-> IF m \in {"left", "right"} THEN a.board ELSE b,
                      mc |-> mc] : a \in add_number(mc)}
               : mc \in {MergeCompact(m, b)}}

\* execute_move with nb bound to board before the branches: a move outside
\* Dirs goes on to add_number
execute_moveBound(move, b) ==
    LET m == Lower(move)
    IN  UNION {{[msg |-> IF a.msg = "Lost" THEN "Lost" ELSE "",
                 nb |-> a.board,
                 arg |-> IF m \in {"left", "right"} THEN a.board
                         ELSE IF m \in Dirs THEN b ELSE a.board,
                 mc |-> mc] : a \in add_number(mc)}
               : mc \in {IF m \in Dirs THEN MergeCompact(m, b) ELSE b}}

\* execute_move(move, board): the set of results.  msg and nb are the pair
\* returned; arg is what the list object passed in holds after the call
\* (check_left and check_right work on that object itself, columize builds
\* a new one); mc is nb as it stands at line 143, before add_number (it is
\* bound once, as the one element of a set, and then passed on).
\* A move outside Dirs leaves nb unbound and line 144 raises.
execute_move(move, b) ==
    IF Lower(move) \notin Dirs
    THEN {[msg |-> "UnboundLocalError", nb |-> b, arg |-> b, mc |-> b]}
    ELSE LET m == Lower(move)
         IN  UNION {{[msg |-> IF a.msg = "Lost" THEN "Lost" ELSE "",
                      nb |-> a.board,
                      arg |-> IF m \in {"left", "right"} THEN a.board ELSE b,
                      mc |-> mc] : a \in add_number(mc)}
                    : mc \in {MergeCompact(m, b)}}

-----------------------------------------------------------------------------
(* The rendering of a board: Twenty.print_board.  A text is the sequence *)
(* of its characters.                                                    *)

DigitChars == <<"0", "1", "2", "3", "4", "5", "6", "7", "8", "9">>

\* str(n) of a number n >= 0
RECURSIVE Decimal(_)
Decimal(n) ==
    IF n < 10 THEN <<DigitChars[n + 1]>>
    ELSE Append(Decimal(n \div 10), DigitChars[(n % 10) + 1])

\* str(word) of a cell
Str(word) == IF word = E THEN <<"_">> ELSE Decimal(word)

\* s.ljust(width)
ljust(s, width) ==
    IF Len(s) >= width THEN s ELSE s \o [i \in 1 .. (width - Len(s)) |-> " "]

\* col_width without the padding of 2
col_widthNoPadding(b) ==
    LET lens == {Len(Str(b[x][y])) : x \in Idx, y \in Idx}
    IN  CHOOSE n \in lens : \A k \in lens : k <= n

\* max(len(str(word)) for row in board for word in row) + 2
col_width(b) ==
    LET lens == {Len(Str(b[x][y])) : x \in Idx, y \in Idx}
    IN  (CHOOSE n \in lens : \A k \in lens : k <= n) + 2

\* "".join(str(word).ljust(col_width) for word in row) + "\n"
RowText(row, width) ==
    ljust(Str(row[0]), width) \o ljust(Str(row[1]), width)
        \o ljust(Str(row[2]), width) \o ljust(Str(row[3]), width) \o <<"\n">>

print_board(b) ==
    LET width == col_width(b)
    IN  RowText(b[0], width) \o RowText(b[1], width)
            \o RowText(b[2], width) \o RowText(b[3], width)

\* the backquote character
BQ == "U+0060"

\* the three backquotes before and after the text: lines 30 and 70
Fence(text) == <<BQ, BQ, BQ>> \o text \o <<BQ, BQ, BQ>>

\* the content of a message after message.delete()
Deleted == <<>>

-----------------------------------------------------------------------------
(* The session loop: Twenty.start *)

\* the five reactions the bot adds to the board message
UP == "U+2B06"

DOWN == "U+2B07"

LEFT == "U+2B05"

RIGHT == "U+27A1"

QUIT == "U+274C"

Recognized == {UP, DOWN, LEFT, RIGHT, QUIT}

\* the reactions an event can carry: the five, and one that is none of them
Emojis == Recognized \cup {"U+1F44D"}

\* ctx.author and somebody else
Author == "author"

Users == {Author, "other"}

\* `message` (the board message) and `start` (the other message of the bot)
BoardMessage == "message"

Messages == {BoardMessage, "start"}

\* timeout=300.0
TIMEOUT == 300

StartText == "Starting game... If a reaction is not received every 5 minutes, the game will time out."

\* line 43: sent when wait_for times out
TimeoutText == "Ending game"

\* line 60: sent on the quit reaction
QuitText == "Ending game"

\* the loss announced with the text of the other two endings
LostTextSame == "Ending game"

\* line 65
LostText == "On no!  It appears you have lost <author>"

\* the if/elif chain of lines 51-58: the move a reaction stands for
MoveOf(emoji) ==
    CASE emoji = UP -> "up"
      [] emoji = DOWN -> "down"
      [] emoji = LEFT -> "left"
      [] emoji = RIGHT -> "right"

\* check without the comparison with `last`
checkNoLast(emoji, user, message) ==
    /\ user = Author
    /\ emoji \in Recognized
    /\ message = BoardMessage

\* check without the comparison of user.id with ctx.author.id
checkAnyUser(emoji, user, message) ==
    /\ emoji \in Recognized
    /\ message = BoardMessage
    /\ ~(emoji = last)

\* def check(reaction, user)
check(emoji, user, message) ==
    /\ user = Author
    /\ emoji \in Recognized
    /\ message = BoardMessage
    /\ ~(emoji = last)

NoCall == [move |-> "none"]

NoRet == [msg |-> "none"]

\* no shift at the recycling plant is under way
NoShift == [cause |-> "no shift"]

\* the state after lines 22-35
Init ==
    /\ board = StartBoard
    /\ last = ""
    /\ pc = "wait"
    /\ out = <<StartText>>
    /\ idle = 0
    /\ moves = 0
    /\ ev = "none"
    /\ cause = "none"
    /\ call = NoCall
    /\ ret = NoRet
    /\ content = Fence(print_board(board))
    /\ sessions = <<>>
    /\ shift = NoShift

\* ReactionAdd without the return of line 68: after "Lost" the loop goes on
ReactionAddLostGoesOn(user, emoji, message) ==
    /\ pc = "wait"
    /\ idle < TIMEOUT
    /\ UNCHANGED <<call, ret, sessions, shift>>
    /\ IF ~check(emoji, user, message)
       THEN /\ ev' = IF user = Author /\ emoji \in Recognized /\ message = BoardMessage
                     THEN "repeat" ELSE "filtered"
            /\ UNCHANGED <<board, last, pc, out, idle, moves, cause, content>>
       ELSE IF emoji = QUIT
       THEN /\ out' = Append(out, QuitText)
            /\ pc' = "ended"
            /\ ev' = "accepted"
            /\ cause' = "quit"
            /\ content' = Deleted
            /\ UNCHANGED <<board, last, idle, moves>>
       ELSE /\ moves < MaxMoves
            /\ \E r \in execute_move(MoveOf(emoji), board) :
                 /\ last' = emoji
                 /\ moves' = moves + 1
                 /\ ev' = "accepted"
                 /\ out' = IF r.msg = "Lost" THEN Append(out, LostText) ELSE out
                 /\ board' = r.nb
                 /\ content' = Fence(print_board(r.nb))
                 /\ pc' = "wait"
                 /\ idle' = 0
                 /\ UNCHANGED cause

\* ReactionAdd without the return of line 62: after the quit reaction the
\* loop goes on to line 63 and waits again
ReactionAddQuitGoesOn(user, emoji, message) ==
    /\ pc = "wait"
    /\ idle < TIMEOUT
    /\ UNCHANGED <<call, ret, sessions, shift>>
    /\ IF ~check(emoji, user, message)
       THEN /\ ev' = IF user = Author /\ emoji \in Recognized /\ message = BoardMessage
                     THEN "repeat" ELSE "filtered"
            /\ UNCHANGED <<board, last, pc, out, idle, moves, cause, content>>
       ELSE IF emoji = QUIT
       THEN /\ out' = Append(out, QuitText)
            /\ last' = emoji
            /\ ev' = "accepted"
            /\ content' = Deleted
            /\ idle' = 0
            /\ UNCHANGED <<board, pc, moves, cause>>
       ELSE /\ moves < MaxMoves
            /\ \E r \in execute_move(MoveOf(emoji), board) :
                 /\ last' = emoji
                 /\ moves' = moves + 1
                 /\ ev' = "accepted"
                 /\ IF r.msg = "Lost"
                    THEN /\ out' = Append(out, LostText)
                         /\ pc' = "ended"
                         /\ cause' = "lost"
                         /\ board' = r.arg
                         /\ content' = Deleted
                         /\ UNCHANGED idle
                    ELSE /\ board' = r.nb
                         /\ content' = Fence(print_board(r.nb))
                         /\ pc' = "wait"
                         /\ idle' = 0
                         /\ UNCHANGED <<out, cause>>

\* ReactionAdd without the message.edit of line 70
ReactionAddNoEdit(user, emoji, message) ==
    /\ pc = "wait"
    /\ idle < TIMEOUT
    /\ UNCHANGED <<call, ret, sessions, shift>>
    /\ IF ~check(emoji, user, message)
       THEN /\ ev' = IF user = Author /\ emoji \in Recognized /\ message = BoardMessage
                     THEN "repeat" ELSE "filtered"
            /\ UNCHANGED <<board, last, pc, out, idle, moves, cause, content>>
       ELSE IF emoji = QUIT
       THEN /\ out' = Append(out, QuitText)
            /\ pc' = "ended"
            /\ ev' = "accepted"
            /\ cause' = "quit"
            /\ content' = Deleted
            /\ UNCHANGED <<board, last, idle, moves>>
       ELSE /\ moves < MaxMoves
            /\ \E r \in execute_move(MoveOf(emoji), board) :
                 /\ last' = emoji
                 /\ moves' = moves + 1
                 /\ ev' = "accepted"
                 /\ IF r.msg = "Lost"
                    THEN /\ out' = Append(out, LostText)
                         /\ pc' = "ended"
                         /\ cause' = "lost"
                         /\ board' = r.arg
                         /\ content' = Deleted
                         /\ UNCHANGED idle
                    ELSE /\ board' = r.nb
                         /\ pc' = "wait"
                         /\ idle' = 0
                         /\ UNCHANGED <<out, cause, content>>

\* A reaction_add event reaches wait_for while it waits.  An event that
\* check() rejects leaves the loop waiting; one it accepts runs the body of
\* the loop (lines 47-70) up to the next wait_for or the return.
ReactionAdd(user, emoji, message) ==
    /\ pc = "wait"
    /\ idle < TIMEOUT
    /\ UNCHANGED <<call, ret, sessions, shift>>
    /\ IF ~check(emoji, user, message)
       THEN /\ ev' = IF user = Author /\ emoji \in Recognized /\ message = BoardMessage
                     THEN "repeat" ELSE "filtered"
            /\ UNCHANGED <<board, last, pc, out, idle, moves, cause, content>>
       ELSE IF emoji = QUIT
       THEN /\ out' = Append(out, QuitText)
            /\ pc' = "ended"
            /\ ev' = "accepted"
            /\ cause' = "quit"
            /\ content' = Deleted
            /\ UNCHANGED <<board, last, idle, moves>>
       ELSE /\ moves < MaxMoves
            /\ \E r \in execute_move(MoveOf(emoji), board) :
                 /\ last' = emoji
                 /\ moves' = moves + 1
                 /\ ev' = "accepted"
                 /\ IF r.msg = "Lost"
                    THEN /\ out' = Append(out, LostText)
                         /\ pc' = "ended"
                         /\ cause' = "lost"
                         /\ board' = r.arg
                         /\ content' = Deleted
                         /\ UNCHANGED idle
                    ELSE /\ board' = r.nb
                         /\ content' = Fence(print_board(r.nb))
                         /\ pc' = "wait"
                         /\ idle' = 0
                         /\ UNCHANGED <<out, cause>>

\* time passes while wait_for waits
Tick ==
    /\ pc = "wait"
    /\ idle < TIMEOUT
    /\ idle' = IF idle + TickStep > TIMEOUT THEN TIMEOUT ELSE idle + TickStep
    /\ UNCHANGED <<board, last, pc, out, moves, ev, cause, call, ret, content,
                   sessions, shift>>

\* Timeout without the return of line 45: the loop waits again
TimeoutNoReturn ==
    /\ pc = "wait"
    /\ idle = TIMEOUT
    /\ out' = Append(out, TimeoutText)
    /\ idle' = 0
    /\ content' = Deleted
    /\ UNCHANGED <<board, last, pc, moves, ev, cause, call, ret, sessions, shift>>

\* wait_for raises asyncio.TimeoutError: lines 42-45
Timeout ==
    /\ pc = "wait"
    /\ idle = TIMEOUT
    /\ out' = Append(out, TimeoutText)
    /\ pc' = "ended"
    /\ cause' = "timeout"
    /\ content' = Deleted
    /\ UNCHANGED <<board, last, idle, moves, ev, call, ret, sessions, shift>>

\* A reaction_add event, of any user, symbol and message, after start() has
\* returned: no wait_for is left to hear it.
Unheard ==
    /\ pc = "ended"
    /\ ev' = "unheard"
    /\ UNCHANGED <<board, last, pc, out, idle, moves, cause, call, ret, content,
                   sessions, shift>>

Next ==
    \/ \E user \in Users, emoji \in Emojis, message \in Messages :
          ReactionAdd(user, emoji, message)
    \/ Tick
    \/ Timeout
    \/ Unheard

\* a session from its start
Spec == Init /\ [][Next]_vars

\* Sessions in progress: board and last as three plays of the source from
\* the start board (moves drawn at random among the symbols check() accepts)
\* left them two accepted moves before the verdict Lost.
LateStates == {
    [board |-> Grid(Row(2, 4, 16, 4), Row(4, 2, 4, 2), Row(16, 32, 16, 4), Row(4, 4, 2, 8)),
     last |-> DOWN],
    [board |-> Grid(Row(2, 4, 2, 8), Row(8, 16, 64, 2), Row(E, 2, 8, 32), Row(4, 2, 8, 2)),
     last |-> RIGHT],
    [board |-> Grid(Row(4, 16, 2, 2), Row(2, 64, 8, 4), Row(4, 8, 64, 2), Row(16, 2, 16, 4)),
     last |-> DOWN]}

InitLate ==
    /\ \E s \in LateStates : board = s.board /\ last = s.last
    /\ pc = "wait"
    /\ out = <<StartText>>
    /\ idle = 0
    /\ moves = 0
    /\ ev = "accepted"
    /\ cause = "none"
    /\ call = NoCall
    /\ ret = NoRet
    /\ content = Fence(print_board(board))
    /\ sessions = <<>>
    /\ shift = NoShift

\* a session from a state late in a play
SpecLate == InitLate /\ [][Next]_vars

\* a session from its start or from a state late in a play
SpecPlay == (Init \/ InitLate) /\ [][Next]_vars

-----------------------------------------------------------------------------
(* One call of execute_move on a board drawn from TestBoards *)

Tiles == {Pow2(n) : n \in 1 .. MaxExp}

AllRows == {Row(a, b, c, d) : a \in {E} \cup Tiles, b \in {E} \cup Tiles,
                              c \in {E} \cup Tiles, d \in {E} \cup Tiles}

FillRows == {EmptyRow, Row(2, 4, 2, 4), Row(4, 2, 4, 2)}

\* one row of every content over rows that are empty or full, and the same
\* boards turned so that the free line is a column
RowBoards == {Grid(a, b, c, b) : a \in AllRows, b \in FillRows, c \in FillRows}

TestBoards == RowBoards \cup {rowize(g) : g \in RowBoards}

InitMove ==
    /\ board \in TestBoards
    /\ last = ""
    /\ pc = "call"
    /\ out = <<>>
    /\ idle = 0
    /\ moves = 0
    /\ ev = "none"
    /\ cause = "none"
    /\ call = NoCall
    /\ ret = NoRet
    /\ content = Deleted
    /\ sessions = <<>>
    /\ shift = NoShift

\* msg, nb = self.execute_move(move, board)
Call(move) ==
    /\ pc = "call"
    /\ \E r \in execute_move(move, board) :
         /\ call' = [move |-> move, board |-> board]
         /\ ret' = r
         /\ board' = r.arg
    /\ pc' = "returned"
    /\ UNCHANGED <<last, out, idle, moves, ev, cause, content, sessions, shift>>

NextMove == \E move \in Dirs : Call(move)

SpecMove == InitMove /\ [][NextMove]_vars

\* The direction values a caller may pass: the four names in several
\* spellings, and values that are none of them
Directions ==
    Dirs \cup {"LEFT", "Left", "RIGHT", "Right", "UP", "Up", "DOWN", "Down"}
         \cup {"", "l", "lef", "diagonal", "north", "leftt"}

NextDirection == \E move \in Directions : Call(move)

SpecDirection == InitMove /\ [][NextDirection]_vars

-----------------------------------------------------------------------------
(* One call of print_board on a board drawn from RenderBoards *)

\* a row with the tile 2^k twice, a 2 and an empty cell
RenderRow(k) == Row(Pow2(k), E, 2, Pow2(k))

RenderRows == {EmptyRow} \cup {RenderRow(k) : k \in 1 .. MaxRenderExp}

RenderBoards == {Grid(a, b, EmptyRow, Row(E, E, E, 2)) : a \in RenderRows, b \in RenderRows}

InitRender ==
    /\ board \in RenderBoards
    /\ last = ""
    /\ pc = "render"
    /\ out = <<>>
    /\ idle = 0
    /\ moves = 0
    /\ ev = "none"
    /\ cause = "none"
    /\ call = NoCall
    /\ ret = NoRet
    /\ content = Deleted
    /\ sessions = <<>>
    /\ shift = NoShift

\* content = self.print_board(board)
Render ==
    /\ pc = "render"
    /\ content' = print_board(board)
    /\ pc' = "rendered"
    /\ UNCHANGED <<board, last, out, idle, moves, ev, cause, call, ret, sessions, shift>>

NextRender == Render

SpecRender == InitRender /\ [][NextRender]_vars

-----------------------------------------------------------------------------
(* Two calls of start() that run side by side.  Each call has its own     *)
(* locals (board, last, message, ctx); the bot hands every reaction_add   *)
(* event to the check() of every wait_for that is waiting.                *)

SessionIds == {1, 2}

\* the board message of each session
SessionMessages == <<BoardMessage, "message2">>

\* the messages an event can be on: the board message of either session
EventMessages == Range(SessionMessages)

\* board and last of a session, late in a play; the two sessions differ
SessionStates == LateStates

\* check of a session without the comparison of the message ids
checkOfAnyMessage(s, emoji, user, message) ==
    /\ user = s.author
    /\ emoji \in Recognized
    /\ ~(emoji = s.last)

\* def check(reaction, user), with the ctx, message and last of session s
checkOf(s, emoji, user, message) ==
    /\ user = s.author
    /\ emoji \in Recognized
    /\ message = s.message
    /\ ~(emoji = s.last)

\* The locals of session s after the event: wait_for of s returns only if
\* s waits and its check accepts, and then the body of the loop runs
\* (lines 47-70) on the locals of s.
LoopBody(s, user, emoji, message) ==
    IF s.pc # "wait" \/ ~checkOf(s, emoji, user, message) THEN {s}
    ELSE IF emoji = QUIT
    THEN {[s EXCEPT !.out = Append(@, QuitText), !.pc = "ended",
                    !.cause = "quit", !.content = Deleted]}
    ELSE {IF r.msg = "Lost"
          THEN [s EXCEPT !.last = emoji, !.moves = @ + 1,
                         !.out = Append(@, LostText), !.pc = "ended",
                         !.cause = "lost", !.board = r.arg, !.content = Deleted]
          ELSE [s EXCEPT !.last = emoji, !.moves = @ + 1, !.board = r.nb,
                         !.content = Fence(print_board(r.nb)), !.idle = 0]
          : r \in execute_move(MoveOf(emoji), s.board)}

InitSessions ==
    /\ \E a \in SessionStates, user \in Users : \E b \in SessionStates \ {a} :
          sessions = <<[author |-> Author, message |-> SessionMessages[1],
                        board |-> a.board, last |-> a.last, pc |-> "wait",
                        out |-> <<StartText>>, idle |-> 0, moves |-> 0,
                        cause |-> "none", content |-> Fence(print_board(a.board))],
                       [author |-> user, message |-> SessionMessages[2],
                        board |-> b.board, last |-> b.last, pc |-> "wait",
                        out |-> <<StartText>>, idle |-> 0, moves |-> 0,
                        cause |-> "none", content |-> Fence(print_board(b.board))]>>
    /\ board = StartBoard
    /\ last = ""
    /\ pc = "sessions"
    /\ out = <<>>
    /\ idle = 0
    /\ moves = 0
    /\ ev = "none"
    /\ cause = "none"
    /\ call = NoCall
    /\ ret = NoRet
    /\ content = Deleted
    /\ shift = NoShift

\* A reaction_add event is dispatched: the check of every waiting session
\* sees it, and the sessions whose check accepts it run their loop body.
Dispatch(user, emoji, message) ==
    /\ pc = "sessions"
    /\ \A i \in SessionIds : sessions[i].pc = "wait" => sessions[i].idle < TIMEOUT
    /\ \E a \in LoopBody(sessions[1], user, emoji, message),
          b \in LoopBody(sessions[2], user, emoji, message) :
          /\ a.moves + b.moves <= MaxJointMoves
          /\ sessions' = <<a, b>>
    /\ UNCHANGED <<board, last, pc, out, idle, moves, ev, cause, call, ret, content,
                   shift>>

\* time passes for every session that waits
TickSessions ==
    /\ pc = "sessions"
    /\ \E i \in SessionIds : sessions[i].pc = "wait"
    /\ \A i \in SessionIds : sessions[i].pc = "wait" => sessions[i].idle < TIMEOUT
    /\ sessions' = [i \in SessionIds |->
          IF sessions[i].pc # "wait" THEN sessions[i]
          ELSE [sessions[i] EXCEPT !.idle =
                   IF @ + TickStep > TIMEOUT THEN TIMEOUT ELSE @ + TickStep]]
    /\ UNCHANGED <<board, last, pc, out, idle, moves, ev, cause, call, ret, content,
                   shift>>

\* wait_for of session i raises asyncio.TimeoutError: lines 42-45
SessionTimeout(i) ==
    /\ pc = "sessions"
    /\ sessions[i].pc = "wait"
    /\ sessions[i].idle = TIMEOUT
    /\ sessions' = [sessions EXCEPT ![i] =
          [@ EXCEPT !.out = Append(@, TimeoutText), !.pc = "ended",
                    !.cause = "timeout", !.content = Deleted]]
    /\ UNCHANGED <<board, last, pc, out, idle, moves, ev, cause, call, ret, content,
                   shift>>

NextSessions ==
    \/ \E user \in Users, emoji \in Emojis, message \in EventMessages :
          Dispatch(user, emoji, message)
    \/ TickSessions
    \/ \E i \in SessionIds : SessionTimeout(i)

SpecSessions == InitSessions /\ [][NextSessions]_vars

-----------------------------------------------------------------------------
(* A shift at the recycling plant: RecyclingPlant.recyclingplant.  The    *)
(* loop of lines 41-107 asks about one item at a time and waits for the   *)
(* author's answer.  The record `shift` holds the locals x, totalreward,  *)
(* timeoutcount and used["action"], and beside them what the shift did    *)
(* so far: the answers of each kind, the timeouts, the credits passed to  *)
(* bank.deposit_credits and bank.withdraw_credits, and the total sent.    *)
(* The bank is taken to carry out every call made to it.                  *)

\* range(0, 500) of the while condition
RangeStop == 500

\* the amounts of lines 82-83 and 89-90
Reward == 15

Penalty == 2

\* the value timeoutcount is compared with
LastWarning == 2

\* used["action"] of the items of self.junk["can"]
Actions == {"trash", "recycle"}

\* what the author may type
Answers == {"trash", "recycle", "exit", " Trash", "RECYCLE ", "Exit ",
            "banana", "trash it", ""}

\* content.lower().strip(), on the texts of Answers
LowerStrip(text) ==
    CASE text \in {" Trash"} -> "trash"
      [] text \in {"RECYCLE "} -> "recycle"
      [] text \in {"Exit "} -> "exit"
      [] OTHER -> text

\* lines 43-46
Opp(action) == IF action = "trash" THEN "recycle" ELSE "trash"

\* no total was sent
NoTotal == <<>>

\* the while condition of line 41 after an iteration that did not break:
\* the loop goes on with the item random.choice draws next, or the else
\* clause of lines 102-107 sends the total
LoopOn(s, next) ==
    IF s.x \in 0..(RangeStop - 1)
    THEN [s EXCEPT !.used = next]
    ELSE [s EXCEPT !.cause = "done", !.reported = <<s.totalreward>>]

\* Replied with a correct answer setting timeoutcount back to 0
RepliedResets(s, text, next) ==
    LET answer == LowerStrip(text)
    IN  IF answer = s.used
        THEN LoopOn([s EXCEPT !.totalreward = @ + Reward, !.x = @ + 1,
                              !.deposited = @ + Reward, !.correct = @ + 1,
                              !.run = 0, !.timeoutcount = 0], next)
        ELSE IF answer = Opp(s.used)
        THEN LoopOn([s EXCEPT !.totalreward = @ - Penalty,
                              !.withdrawn = @ + Penalty, !.wrong = @ + 1,
                              !.run = 0], next)
        ELSE IF answer = "exit"
        THEN [s EXCEPT !.cause = "exit", !.reported = <<s.totalreward>>,
                       !.run = 0]
        ELSE LoopOn([s EXCEPT !.other = @ + 1, !.run = 0], next)

\* Replied with a wrong answer that withdraws the credits and leaves
\* totalreward as it is
RepliedNoPenalty(s, text, next) ==
    LET answer == LowerStrip(text)
    IN  IF answer = s.used
        THEN LoopOn([s EXCEPT !.totalreward = @ + Reward, !.x = @ + 1,
                              !.deposited = @ + Reward, !.correct = @ + 1,
                              !.run = 0], next)
        ELSE IF answer = Opp(s.used)
        THEN LoopOn([s EXCEPT !.withdrawn = @ + Penalty, !.wrong = @ + 1,
                              !.run = 0], next)
        ELSE IF answer = "exit"
        THEN [s EXCEPT !.cause = "exit", !.reported = <<s.totalreward>>,
                       !.run = 0]
        ELSE LoopOn([s EXCEPT !.other = @ + 1, !.run = 0], next)

\* lines 76-101: wait_for returned a message of the author with the content
\* `text`
Replied(s, text, next) ==
    LET answer == LowerStrip(text)
    IN  IF answer = s.used
        THEN LoopOn([s EXCEPT !.totalreward = @ + Reward, !.x = @ + 1,
                              !.deposited = @ + Reward, !.correct = @ + 1,
                              !.run = 0], next)
        ELSE IF answer = Opp(s.used)
        THEN LoopOn([s EXCEPT !.totalreward = @ - Penalty,
                              !.withdrawn = @ + Penalty, !.wrong = @ + 1,
                              !.run = 0], next)
        ELSE IF answer = "exit"
        THEN [s EXCEPT !.cause = "exit", !.reported = <<s.totalreward>>,
                       !.run = 0]
        ELSE LoopOn([s EXCEPT !.other = @ + 1, !.run = 0], next)

\* lines 58-75: wait_for timed out and answer is None
TimedOut(s, next) ==
    IF s.timeoutcount = LastWarning
    THEN [s EXCEPT !.cause = "slacked", !.timeouts = @ + 1, !.run = @ + 1]
    ELSE LoopOn([s EXCEPT !.timeoutcount = @ + 1, !.timeouts = @ + 1,
                          !.run = @ + 1], next)

\* the state after lines 33-46 of the first iteration
InitShift ==
    /\ \E used \in Actions :
          shift = [x |-> 0, totalreward |-> 0, timeoutcount |-> 0,
                   used |-> used, cause |-> "none", reported |-> NoTotal,
                   correct |-> 0, wrong |-> 0, other |-> 0, timeouts |-> 0,
                   run |-> 0, deposited |-> 0, withdrawn |-> 0]
    /\ board = StartBoard
    /\ last = ""
    /\ pc = "shift"
    /\ out = <<>>
    /\ idle = 0
    /\ moves = 0
    /\ ev = "none"
    /\ cause = "none"
    /\ call = NoCall
    /\ ret = NoRet
    /\ content = Deleted
    /\ sessions = <<>>

\* the author answers within the 20 seconds of line 57
Reply(text) ==
    /\ pc = "shift"
    /\ shift.cause = "none"
    /\ LowerStrip(text) = Opp(shift.used) => shift.wrong < MaxWrong
    /\ LowerStrip(text) \notin {shift.used, Opp(shift.used), "exit"}
          => shift.other < MaxOther
    /\ \E next \in Actions : shift' = Replied(shift, text, next)
    /\ UNCHANGED <<board, last, pc, out, idle, moves, ev, cause, call, ret,
                   content, sessions>>

\* the 20 seconds pass without an answer of the author
NoReply ==
    /\ pc = "shift"
    /\ shift.cause = "none"
    /\ \E next \in Actions : shift' = TimedOut(shift, next)
    /\ UNCHANGED <<board, last, pc, out, idle, moves, ev, cause, call, ret,
                   content, sessions>>

NextShift ==
    \/ \E text \in Answers : Reply(text)
    \/ NoReply

SpecShift == InitShift /\ [][NextShift]_vars

-----------------------------------------------------------------------------
(* The price of animals: EvolutionUtils.get_total_price.  A purchase of   *)
(* `amount` animals is priced whole and in two parts, `amount` first and  *)
(* `more` after them.                                                     *)

\* what iteration x of the loop adds to total, without the part that grows
\* with x
TermNoExtra(level, bought, x, bt) ==
    LET normal == level * 800
        level_tax == ((2 ^ level) * 10) - 200
        tax == IF bt THEN bought * 300 ELSE 0
    IN  normal + level_tax + tax

\* lines 24-32: what iteration x of the loop adds to total
Term(level, bought, x, bt) ==
    LET normal == level * 800
        level_tax == ((2 ^ level) * 10) - 200
        tax == IF bt THEN bought * 300 ELSE 0
        extra == IF bt THEN x * 300 ELSE 0
    IN  normal + level_tax + tax + extra

\* get_total_price(level, bought, amount, bt): total after the iterations
\* x = 0 .. amount - 1
RECURSIVE get_total_price(_, _, _, _)
get_total_price(level, bought, amount, bt) ==
    IF amount <= 0 THEN 0
    ELSE get_total_price(level, bought, amount - 1, bt)
            + Term(level, bought, amount - 1, bt)

\* the levels, the animals bought before and the amounts that are priced
Levels == 1..MaxLevel

Boughts == 0..MaxBought

Amounts == 0..MaxAmount

InitPrice ==
    /\ call \in [level : Levels, bought : Boughts, amount : Amounts,
                 more : Amounts, bt : BOOLEAN]
    /\ ret = NoRet
    /\ pc = "price"
    /\ board = StartBoard
    /\ last = ""
    /\ out = <<>>
    /\ idle = 0
    /\ moves = 0
    /\ ev = "none"
    /\ cause = "none"
    /\ content = Deleted
    /\ sessions = <<>>
    /\ shift = NoShift

\* the calls of get_total_price for the whole purchase, for its two parts
\* and for one animal
PriceCall ==
    /\ pc = "price"
    /\ ret' = [whole |-> get_total_price(call.level, call.bought,
                                         call.amount + call.more, call.bt),
               first |-> get_total_price(call.level, call.bought,
                                         call.amount, call.bt),
               second |-> get_total_price(call.level, call.bought + call.amount,
                                          call.more, call.bt),
               one |-> get_total_price(call.level, call.bought, 1, call.bt)]
    /\ pc' = "priced"
    /\ UNCHANGED <<board, last, out, idle, moves, ev, cause, call, content,
                   sessions, shift>>

NextPrice == PriceCall

SpecPrice == InitPrice /\ [][NextPrice]_vars

-----------------------------------------------------------------------------
(* Properties of execute_move, checked under SpecMove *)

Cells == Idx \X Idx

Returned == pc = "returned"

\* the cells in which two boards differ
Diff(a, b) == {p \in Cells : a[p[1]][p[2]] # b[p[1]][p[2]]}

C2_MergeKeepsSum == Returned => Total(ret.mc) = Total(call.board)

\* a move that merged and slid has returned
C2_Witness ==
    /\ Returned
    /\ Merges(call.move, call.board) >= 2
    /\ Total(call.board) >= 16
    /\ ret.mc # call.board

Board22 == Grid(Row(2, 2, E, E), EmptyRow, EmptyRow, EmptyRow)

\* a row that holds exactly two tiles, of equal value
TwoEqual(row) ==
    \E i \in Idx, j \in Idx :
        /\ i < j
        /\ row[i] # E
        /\ row[i] = row[j]
        /\ \A k \in Idx \ {i, j} : row[k] = E

\* the value of the tiles of such a row
TileOf(row) == row[CHOOSE i \in Idx : row[i] # E]

\* C6: "left" on Board22 gives row 0 = [4,_,_,_] after merge and compaction
\* and then one new tile (2 or 4) in one of the 15 other cells, each of them
\* possible; a row of exactly two equal tiles v becomes the single tile 2v
\* at the target edge under left and under right.
C6_TwoEqualTiles ==
    /\ (pc = "call" /\ board = Board22) =>
          \A p \in Cells \ {<<0, 0>>} :
              \E r \in execute_move("left", board) : r.nb[p[1]][p[2]] # E
    /\ (Returned /\ call.board = Board22 /\ call.move = "left") =>
          /\ ret.mc = Grid(Row(4, E, E, E), EmptyRow, EmptyRow, EmptyRow)
          /\ ret.nb[0][0] = 4
          /\ Cardinality(Diff(ret.nb, ret.mc)) = 1
          /\ \A p \in Diff(ret.nb, ret.mc) :
                p # <<0, 0>> /\ ret.nb[p[1]][p[2]] \in {2, 4}
    /\ (Returned /\ call.move \in {"left", "right"}) =>
          \A x \in Idx :
              TwoEqual(call.board[x]) =>
                  ret.mc[x] = IF call.move = "left"
                              THEN Row(2 * TileOf(call.board[x]), E, E, E)
                              ELSE Row(E, E, E, 2 * TileOf(call.board[x]))

\* "left" on Board22 has returned with the new tile, a 4, in the far corner
C6_Witness ==
    /\ Returned
    /\ call.board = Board22
    /\ call.move = "left"
    /\ ret.nb[0][0] = 4
    /\ ret.nb[3][3] = 4

-----------------------------------------------------------------------------
(* Properties of the session loop, checked under Spec and SpecLate *)

RECURSIVE IsPow2(_)
IsPow2(v) == v = 1 \/ (v > 1 /\ v % 2 = 0 /\ IsPow2(v \div 2))

Arrows == {UP, DOWN, LEFT, RIGHT}

LastText == out[Len(out)]

\* C3: a session starts with one cell holding 2 and all others empty, and
\* after any accepted moves the board is a 4x4 grid whose cells are empty
\* or a power of two that is at least 2.
C3_BoardOfTiles ==
    /\ moves = 0 => (Count(board) = 1 /\ \E p \in Cells : board[p[1]][p[2]] = 2)
    /\ DOMAIN board = Idx
    /\ \A x \in Idx : DOMAIN board[x] = Idx
    /\ \A p \in Cells :
          \/ board[p[1]][p[2]] = E
          \/ board[p[1]][p[2]] >= 2 /\ IsPow2(board[p[1]][p[2]])

\* two moves were accepted, the second merged the two 2s and a 4 was spawned
C3_Witness ==
    /\ pc = "wait"
    /\ moves = 2
    /\ Count(board) = 2
    /\ Total(board) = 8

\* C7: an event whose symbol is the symbol accepted last is rejected and
\* changes nothing of the session; every accepted move carries a symbol
\* other than the one accepted before it; before the first accepted input
\* nothing is rejected as a repetition.
C7_RepeatIgnored ==
    [][/\ (/\ pc = "wait"
           /\ last # ""
           /\ \E user \in Users, message \in Messages : ReactionAdd(user, last, message))
          => UNCHANGED <<board, last, pc, out, idle, moves, cause>>
       /\ moves' # moves => (last' # last /\ last' \in Arrows)
       /\ last = "" => ev' # "repeat"
      ]_vars

\* after one accepted move the same symbol came again and was rejected
C7_Witness ==
    /\ pc = "wait"
    /\ moves = 1
    /\ ev = "repeat"
    /\ last \in Arrows
    /\ Count(board) = 2

\* C8 as stated: each of the three endings has a text of its own
C8_Original ==
    pc = "ended" =>
        /\ cause = "quit" => LastText \notin {TimeoutText, LostText}
        /\ cause = "timeout" => LastText \notin {QuitText, LostText}
        /\ cause = "lost" => LastText \notin {QuitText, TimeoutText}

\* C8, amended: the text of a loss differs from the text of a quit and of a
\* timeout; a quit and a timeout both send "Ending game".
C8_LossTextDistinct ==
    pc = "ended" =>
        /\ cause = "lost" =>
              LastText = LostText /\ LastText \notin {QuitText, TimeoutText}
        /\ cause \in {"quit", "timeout"} =>
              LastText = "Ending game" /\ LastText # LostText

\* a session has ended with a loss
C8_Witness ==
    /\ pc = "ended"
    /\ cause = "lost"
    /\ LastText = LostText

\* C9: a wait that has lasted 300 time units ends the session with "Ending
\* game", which happens no earlier, and neither the timeout nor anything
\* after it changes the board or applies a move.
C9_TimeoutEnds ==
    [][/\ (pc = "wait" /\ idle >= 300) =>
             /\ pc' = "ended"
             /\ cause' = "timeout"
             /\ out' = Append(out, "Ending game")
             /\ UNCHANGED <<board, moves, last>>
       /\ (cause' = "timeout" /\ cause # "timeout") => idle = 300
       /\ cause = "timeout" => UNCHANGED <<board, moves, last, pc, out, cause>>
      ]_vars

\* a session timed out after an accepted move, and events came after it
C9_Witness ==
    /\ cause = "timeout"
    /\ pc = "ended"
    /\ moves >= 1
    /\ ev = "unheard"
    /\ LastText = "Ending game"

\* C10: a session ends only by an accepted quit, by a move whose verdict is
\* Lost, or by a timeout; an accepted move ends it exactly when its verdict
\* is Lost, every other step from waiting returns to waiting; no step after
\* the end changes the board.
C10_ThreeEndings ==
    [][/\ (pc = "wait" /\ pc' = "ended") =>
             \/ /\ cause' = "quit"
                /\ check(QUIT, Author, BoardMessage)
                /\ idle < TIMEOUT
                /\ UNCHANGED <<board, moves, last>>
             \/ /\ cause' = "lost"
                /\ last' \in Arrows
                /\ check(last', Author, BoardMessage)
                /\ idle < TIMEOUT
                /\ \E r \in execute_move(MoveOf(last'), board) : r.msg = "Lost"
             \/ /\ cause' = "timeout"
                /\ idle = TIMEOUT
                /\ UNCHANGED <<board, moves, last>>
       /\ (pc = "wait" /\ moves' # moves) =>
             (pc' = "ended" <=>
                 \E r \in execute_move(MoveOf(last'), board) : r.msg = "Lost")
       /\ (pc = "wait" /\ cause' = "none") => pc' = "wait"
       /\ pc = "ended" => (pc' = "ended" /\ UNCHANGED <<board, cause, out>>)
      ]_vars

\* a session was lost, and events came after its end
C10_Witness ==
    /\ pc = "ended"
    /\ cause = "lost"
    /\ ev = "unheard"
    /\ Empties(board) = {}

-----------------------------------------------------------------------------
(* Properties of the filter and of the endings, checked under Spec *)

\* C11: an accepted quit reaction ends the session in the step in which it
\* is received: start() returns with "Ending game", and the board, the
\* number of moves applied and the last symbol are as before the step.
C11_QuitEnds ==
    [][/\ (pc = "wait" /\ ReactionAdd(Author, QUIT, BoardMessage)) =>
             /\ pc' = "ended"
             /\ cause' = "quit"
             /\ out' = Append(out, QuitText)
             /\ UNCHANGED <<board, moves, last>>
       /\ (cause' = "quit" /\ cause # "quit") =>
             /\ pc = "wait"
             /\ pc' = "ended"
             /\ UNCHANGED <<board, moves, last>>
      ]_vars

\* the quit reaction was accepted after a move, and ended the session
C11_Witness ==
    /\ pc = "ended"
    /\ cause = "quit"
    /\ ev = "accepted"
    /\ moves >= 1
    /\ Count(board) = 2
    /\ last \in Arrows

\* C13: a reaction_add event of a user other than the author of the session,
\* or on a message other than the board message, or with a symbol that is
\* none of the five, is not accepted: the board, the last symbol, the
\* running status, the texts sent and the board message stay as they were.
C13_ForeignIgnored ==
    [][(/\ pc = "wait"
        /\ \E user \in Users, emoji \in Emojis, message \in Messages :
              /\ (user # Author \/ message # BoardMessage \/ emoji \notin Recognized)
              /\ ReactionAdd(user, emoji, message))
       => /\ UNCHANGED <<board, last, pc, cause, moves, out, content>>
          /\ ev' = "filtered"
      ]_vars

\* after an accepted move such an event came, and the session waits on
C13_Witness ==
    /\ pc = "wait"
    /\ ev = "filtered"
    /\ moves >= 1
    /\ last \in Arrows
    /\ Count(board) = 2
    /\ content = Fence(print_board(board))

\* C14: whenever the session waits for a reaction, the content of the board
\* message is the rendering of the board the session holds, between three
\* backquotes; every accepted move that leaves the session waiting puts the
\* rendering of the new board there.
C14_ShownIsBoard ==
    pc = "wait" => content = Fence(print_board(board))

\* two moves were accepted and the message shows a board of three tiles
C14_Witness ==
    /\ pc = "wait"
    /\ moves = 2
    /\ Count(board) = 3
    /\ content = Fence(print_board(board))
    /\ content # Fence(print_board(StartBoard))

-----------------------------------------------------------------------------
(* Properties of print_board, checked under SpecRender *)

\* the number of characters of a cell in decimal notation, 1 for "_"
TextLen(v) ==
    IF v < 10 THEN 1 ELSE IF v < 100 THEN 2 ELSE IF v < 1000 THEN 3
    ELSE IF v < 10000 THEN 4 ELSE 5

\* the number a sequence of digits denotes
RECURSIVE Number(_)
Number(s) ==
    IF s = <<>> THEN 0
    ELSE 10 * Number(SubSeq(s, 1, Len(s) - 1))
         + (CHOOSE d \in 0 .. 9 : DigitChars[d + 1] = s[Len(s)])

\* C15: with w the greatest text length of a cell of the board, the text
\* print_board returns is four rows of 4 * (w + 2) characters, each followed
\* by a newline; the cell in column y of a row is the w + 2 characters from
\* y * (w + 2) on: the text of the cell ("_" or its decimal digits), then
\* blanks; a second call on the same board returns the same text.
C15_FixedWidth ==
    pc = "rendered" =>
        LET w == CHOOSE n \in 1 .. 5 :
                    /\ \E p \in Cells : TextLen(board[p[1]][p[2]]) = n
                    /\ \A p \in Cells : TextLen(board[p[1]][p[2]]) <= n
            rowLen == 4 * (w + 2)
            RowOf(x) == SubSeq(content, x * (rowLen + 1) + 1, x * (rowLen + 1) + rowLen)
            CellOf(x, y) == SubSeq(RowOf(x), y * (w + 2) + 1, (y + 1) * (w + 2))
        IN  /\ Len(content) = 4 * (rowLen + 1)
            /\ \A x \in Idx :
                  /\ Len(RowOf(x)) = rowLen
                  /\ content[(x + 1) * (rowLen + 1)] = "\n"
                  /\ \A i \in 1 .. rowLen : RowOf(x)[i] # "\n"
            /\ \A p \in Cells :
                  LET v == board[p[1]][p[2]]
                      cell == CellOf(p[1], p[2])
                      n == TextLen(v)
                  IN  /\ Len(cell) = w + 2
                      /\ IF v = E THEN cell[1] = "_"
                         ELSE /\ \A i \in 1 .. n : cell[i] \in Range(DigitChars)
                              /\ cell[1] # "0"
                              /\ Number(SubSeq(cell, 1, n)) = v
                      /\ \A i \in (n + 1) .. (w + 2) : cell[i] = " "
            /\ print_board(board) = content

\* a board with 16 and 1024 was rendered: every cell has six characters
C15_Witness ==
    /\ pc = "rendered"
    /\ board[0] = RenderRow(4)
    /\ board[1] = RenderRow(10)
    /\ Len(content) = 100
    /\ SubSeq(content, 1, 12) = <<"1", "6", " ", " ", " ", " ", "_", " ", " ", " ", " ", " ">>

-----------------------------------------------------------------------------
(* Properties of the merge pass, the compaction pass and the spawn pass,    *)
(* checked under SpecMove                                                   *)

\* line x of a board along a direction of travel, read from the edge the
\* tiles travel towards: a row for left and right, a column for up and down
LineFrom(b, move, x) ==
    [i \in Idx |-> CASE move = "left" -> b[x][i]
                    [] move = "right" -> b[x][3 - i]
                    [] move = "up" -> b[i][x]
                    [] move = "down" -> b[3 - i][x]]

\* C16 as stated: in each of the four directions every line, read from the
\* edge the tiles travel towards, is after merge and compaction what a scan
\* from that edge gives: each cell in turn absorbs the nearest non-empty
\* cell further along if it holds the same value, the first such merge is
\* the one applied, and the tiles then slide to that edge; so the row
\* [2,2,2,_] moved right becomes [_,_,2,4].
C16_Original ==
    Returned =>
        \A x \in Idx :
            LineFrom(ret.mc, call.move, x)
                = SlideLow(ScanAhead(LineFrom(call.board, call.move, x), 0).row)

\* the number of tiles of a line
LineCount(line) == Cardinality({i \in Idx : line[i] # E})

\* C17: a move applies at most one merge to a line (a row for left and
\* right, a column for up and down): after merge and compaction the line has
\* at most one tile less than before and the same sum, a line of four equal
\* tiles is left with three tiles, and the tile a merge produced is not
\* merged again ([2,2,4,_] keeps two tiles, 4 and 4).
C17_OneMergePerLine ==
    Returned =>
        \A x \in Idx :
            \A before \in {LineFrom(call.board, call.move, x)},
               after \in {LineFrom(ret.mc, call.move, x)} :
                /\ LineCount(after) >= LineCount(before) - 1
                /\ LineCount(after) <= LineCount(before)
                /\ SumTo(after, 3) = SumTo(before, 3)
                /\ (\E v \in Tiles : before = Row(v, v, v, v)) => LineCount(after) = 3
                /\ (\E v \in Tiles : before \in {Row(v, v, 2 * v, E), Row(E, v, v, 2 * v)})
                      => LineCount(after) = 2

\* the row [2,2,2,2] was moved left and holds 4, 2, 2
C17_Witness ==
    /\ Returned
    /\ call.move = "left"
    /\ call.board[0] = Row(2, 2, 2, 2)
    /\ ret.mc[0] = Row(4, 2, 2, E)
    /\ Merges(call.move, call.board) = 1

\* the board after the merge pass of a move, before the compaction pass
Merged(move, b) ==
    CASE move = "left" -> check_left(b)
      [] move = "right" -> check_right(b)
      [] move = "down" -> rowize(check_down(columize(b)))
      [] move = "up" -> rowize(check_up(columize(b)))

\* the tiles of a line in their order, the empty cells left out
RECURSIVE TilesFrom(_, _)
TilesFrom(line, i) ==
    IF i > 3 THEN <<>>
    ELSE IF line[i] = E THEN TilesFrom(line, i + 1)
    ELSE <<line[i]>> \o TilesFrom(line, i + 1)

\* C18: after the compaction pass every line along the direction of travel,
\* read from the edge the tiles travel towards, holds its tiles first and
\* its empty cells after them, and its tiles are those the line had after
\* the merge pass, in the same order, none lost and none duplicated.
C18_Compacted ==
    Returned =>
        \A mb \in {Merged(call.move, call.board)} : \A x \in Idx :
            \A merged \in {LineFrom(mb, call.move, x)},
               after \in {LineFrom(ret.mc, call.move, x)} :
                /\ \A i \in Idx : i < LineCount(after) <=> after[i] # E
                /\ TilesFrom(after, 0) = TilesFrom(merged, 0)

\* a row with gaps was moved right: [2,_,_,4] became [_,_,2,4]
C18_Witness ==
    /\ Returned
    /\ call.move = "right"
    /\ call.board[0] = Row(2, E, E, 4)
    /\ ret.mc[0] = Row(E, E, 2, 4)
    /\ Count(call.board) = 10

TwoDraws == {j \in JoinDraws : Joining(j) = 2}

FourDraws == {j \in JoinDraws : Joining(j) = 4}

\* C20 as stated: of the equally likely outcomes of the draw that decides
\* the value of a spawned tile, exactly 85 in 100 give 2 and exactly 15 in
\* 100 give 4.
C20_Original ==
    (Returned /\ ret.msg = "") =>
        /\ 100 * Cardinality(TwoDraws) = 85 * Cardinality(JoinDraws)
        /\ 100 * Cardinality(FourDraws) = 15 * Cardinality(JoinDraws)

-----------------------------------------------------------------------------
(* Properties of sessions side by side, checked under SpecSessions *)

\* what a session holds: its board, its last symbol, whether it runs
Own(s) == <<s.board, s.last, s.pc, s.cause>>

\* C12: with two sessions side by side, of one author or of two, an event
\* of another user or on another message is rejected by the check of a
\* session; a step changes the board, the last symbol or the status of a
\* session only if it is the timeout of that session or an event of its
\* author on its board message with a recognized symbol other than its last
\* one; and such a step changes no other session.
C12_SessionsApart ==
    [][/\ \A i \in SessionIds :
          \A user \in Users, emoji \in Emojis, message \in EventMessages :
             (user # sessions[i].author \/ message # sessions[i].message)
             => ~checkOf(sessions[i], emoji, user, message)
       /\ \A i \in SessionIds :
          Own(sessions'[i]) # Own(sessions[i]) =>
             /\ \/ SessionTimeout(i)
                \/ \E emoji \in Recognized \ {sessions[i].last} :
                      Dispatch(sessions[i].author, emoji, sessions[i].message)
             /\ \A j \in SessionIds \ {i} : Own(sessions'[j]) = Own(sessions[j])
      ]_vars

\* two sessions of one author: the second accepted a move of its own, then
\* the first was quit, and the second waits on with its new board shown
C12_Witness ==
    /\ pc = "sessions"
    /\ sessions[1].author = sessions[2].author
    /\ sessions[1].moves = 0
    /\ sessions[1].cause = "quit"
    /\ sessions[2].moves = 1
    /\ sessions[2].pc = "wait"
    /\ sessions[2].last \notin {s.last : s \in SessionStates}
    /\ sessions[2].content = Fence(print_board(sessions[2].board))

-----------------------------------------------------------------------------
(* Relations between the directions, checked under SpecMove *)

\* the transposition of a grid
Transpose(b) == [x \in Idx |-> [y \in Idx |-> b[y][x]]]

\* C21 as stated: the result of merge and compaction of an up move on B is
\* transpose(left(transpose(B))) and that of a down move is
\* transpose(right(transpose(B))), left and right being the results of merge
\* and compaction of the two row moves.
C21_Original ==
    Returned =>
        /\ call.move = "up" =>
              ret.mc = Transpose(MergeCompact("left", Transpose(call.board)))
        /\ call.move = "down" =>
              ret.mc = Transpose(MergeCompact("right", Transpose(call.board)))

\* C22 as stated: for every board and every direction, the board object
\* passed to execute_move holds after the call the cell values it held
\* before it.
C22_Original == Returned => ret.arg = call.board

-----------------------------------------------------------------------------
(* The sum of the tiles in a session, checked under SpecPlay *)

\* the number of accepted moves whose verdict was not Lost
NonLost == IF cause = "lost" THEN moves - 1 ELSE moves

\* the sum lies between 2 + 2n and 2 + 4n, n being the non-lost moves
SumInRange ==
    /\ 2 + 2 * NonLost <= Total(board)
    /\ Total(board) <= 2 + 4 * NonLost

\* C23: an accepted move whose verdict is not Lost raises the sum of the
\* tiles of the board of the session by 2 or by 4, one whose verdict is Lost
\* leaves the sum as it is, and no other step changes it; a session at its
\* start has sum 2 and no move, so that from the start board the sum after n
\* non-lost moves stays between 2 + 2n and 2 + 4n.
C23_SumRises ==
    [][/\ moves' # moves =>
             \A rise \in {Total(board') - Total(board)} :
                /\ moves' = moves + 1
                /\ cause' # "lost" => rise \in {2, 4}
                /\ cause' = "lost" => rise = 0
                /\ SumInRange => SumInRange'
       /\ moves' = moves => board' = board
       /\ (moves = 0 /\ board = StartBoard) => SumInRange
      ]_vars

\* a move that was not Lost raised the sum, and the next one was Lost
C23_Witness ==
    /\ pc = "ended"
    /\ cause = "lost"
    /\ moves = 2
    /\ Empties(board) = {}
    /\ \E s \in LateStates : Total(board) - Total(s.board) \in {2, 4}


-----------------------------------------------------------------------------
(* A direction that is none of the four, checked under SpecDirection *)

\* the call was made with a direction that move.lower() equates with none of
\* left, right, down, up
Unrecognized == Returned /\ Lower(call.move) \notin Dirs

\* C24: a call of execute_move with a direction that is not up, down, left
\* or right in any letter case ends in an error (UnboundLocalError) and not
\* in a verdict, and the board passed in holds the same values afterwards:
\* nothing merged, nothing slid, nothing spawned.  A direction that is one of
\* the four in another letter case ends in a verdict.
C24_InvalidDirection ==
    /\ Unrecognized =>
          /\ ret.msg = "UnboundLocalError"
          /\ ret.msg \notin {"", "Lost"}
          /\ ret.arg = call.board
          /\ ret.nb = call.board
          /\ board = call.board
    /\ (Returned /\ ~Unrecognized) => ret.msg \in {"", "Lost"}

\* an unrecognized direction on a board where a recognized one would have
\* merged, slid and spawned; and a recognized one in capitals
C24_Witness ==
    /\ Unrecognized
    /\ call.move = "diagonal"
    /\ Merges("left", call.board) > 0
    /\ Empties(call.board) # {}
    /\ MergeCompact("up", call.board) # call.board

C24_WitnessCapitals ==
    /\ Returned /\ call.move = "UP" /\ ret.mc # call.board /\ ret.msg = ""


-----------------------------------------------------------------------------
(* columize and rowize undo each other, checked under SpecMove *)

\* the move was up or down
Vertical == Returned /\ call.move \in {"up", "down"}

\* the lines the vertical branch works on, after its merge pass and after its
\* compaction pass (lines 111-125 and 128-142)
VerticalLines == columize(call.board)

VerticalMerged ==
    IF call.move = "down" THEN check_down(VerticalLines)
                          ELSE check_up(VerticalLines)

VerticalSlid ==
    [x \in Idx |-> IF call.move = "down" THEN SlideLow(VerticalMerged[x])
                                         ELSE SlideHigh(VerticalMerged[x])]

\* the vertical branch merged nothing and slid nothing
NoMergeNoSlide ==
    /\ Vertical
    /\ VerticalMerged = VerticalLines
    /\ VerticalSlid = VerticalMerged

\* column y of a board, top to bottom
Column(b, y) == [x \in Idx |-> b[x][y]]

\* C28: rowize(columize(B)) = B and columize(rowize(B)) = B on every grid;
\* an up or down move that merges nothing and slides nothing returns, before
\* the spawn, a board equal to the one passed in; and a vertical move keeps
\* every tile in its column: each column of the result before the spawn has
\* the sum of the same column of the input, holds the same tiles in the same
\* order if nothing merged in it, and one tile less if a pair merged in it.
C28_Inverse ==
    /\ rowize(columize(board)) = board
    /\ columize(rowize(board)) = board
    /\ NoMergeNoSlide => ret.mc = call.board
    /\ Vertical =>
          \A y \in Idx :
              \A before \in {Column(call.board, y)},
                 after \in {Column(ret.mc, y)} :
                  /\ SumTo(after, 3) = SumTo(before, 3)
                  /\ IF VerticalMerged[y] = VerticalLines[y]
                     THEN TilesFrom(after, 0) = TilesFrom(before, 0)
                     ELSE LineCount(after) = LineCount(before) - 1

\* a vertical move on a board that is not symmetric under the quarter turn,
\* where nothing merged and nothing slid
C28_Witness ==
    /\ NoMergeNoSlide
    /\ call.move = "up"
    /\ Total(call.board) > 0
    /\ columize(call.board) # call.board
    /\ columize(call.board) # Transpose(call.board)

\* a vertical move that merged in one column and slid in another
C28_WitnessMoved ==
    /\ Vertical
    /\ Merges(call.move, call.board) = 1
    /\ \E y \in Idx : /\ Column(ret.mc, y) # Column(call.board, y)
                      /\ TilesFrom(Column(ret.mc, y), 0) = TilesFrom(Column(call.board, y), 0)


-----------------------------------------------------------------------------
(* Properties of a shift at the recycling plant, checked under SpecShift *)

\* the shift waits for an answer
Working == pc = "shift" /\ shift.cause = "none"

\* timeoutcount is the number of timeouts of the whole shift while the shift
\* goes on, and a shift that ended for slacking had three and sent no total
TimeoutsCounted ==
    /\ Working => shift.timeoutcount = shift.timeouts /\ shift.timeouts <= LastWarning
    /\ shift.cause = "slacked" <=> shift.timeouts = LastWarning + 1
    /\ shift.cause = "slacked" => shift.reported = NoTotal

\* C25: the timeout counter of a shift is never reset.  The first and the
\* second timeout leave the shift running (a warning and the next item), the
\* third timeout ends it, whatever answers, correct, wrong or unrecognized,
\* came between the timeouts, and a shift ended that way sends no total.
C25_ThirdTimeoutEnds ==
    [][/\ TimeoutsCounted
       /\ TimeoutsCounted'
       /\ shift'.timeouts = shift.timeouts =>
             shift'.timeoutcount = shift.timeoutcount
       /\ shift'.timeouts # shift.timeouts =>
             /\ shift'.timeouts = shift.timeouts + 1
             /\ IF shift.timeouts < LastWarning
                THEN /\ shift'.cause = "none"
                     /\ shift'.timeoutcount = shift.timeoutcount + 1
                ELSE /\ shift'.cause = "slacked"
                     /\ shift'.reported = NoTotal
      ]_vars

\* the shift ended at its third timeout, which came right after an answer;
\* answers of all three kinds were given in the shift
C25_Witness ==
    /\ shift.cause = "slacked"
    /\ shift.timeouts = 3
    /\ shift.run = 1
    /\ shift.correct >= 1
    /\ shift.wrong >= 1
    /\ shift.other >= 1

\* totalreward against the answers and against the bank
Balanced ==
    /\ shift.totalreward = Reward * shift.correct - Penalty * shift.wrong
    /\ shift.totalreward = shift.deposited - shift.withdrawn
    /\ shift.x = shift.correct

\* the shift ended with its total sent exactly if the 500th correct answer
\* or an exit ended it
TotalSent ==
    /\ shift.x = RangeStop <=> shift.cause = "done"
    /\ shift.x <= RangeStop
    /\ shift.cause \in {"done", "exit"} <=> shift.reported = <<shift.totalreward>>
    /\ shift.cause \notin {"done", "exit"} <=> shift.reported = NoTotal

\* C26: in a shift totalreward is always 15 times the number of correct
\* answers less 2 times the number of wrong ones, and that is the credits
\* deposited less the credits withdrawn; an unrecognized answer and a timeout
\* change none of the three; the 500th correct answer and the answer exit
\* end the shift with the total sent.
C26_TotalReward ==
    [][/\ Balanced
       /\ Balanced'
       /\ TotalSent
       /\ TotalSent'
       /\ (shift'.other # shift.other \/ shift'.timeouts # shift.timeouts) =>
             /\ shift'.totalreward = shift.totalreward
             /\ shift'.deposited = shift.deposited
             /\ shift'.withdrawn = shift.withdrawn
       /\ (\E text \in Answers : LowerStrip(text) = "exit" /\ Reply(text)) =>
             /\ shift'.cause = "exit"
             /\ shift'.reported = <<shift.totalreward>>
      ]_vars

\* the 500th correct answer ended a shift that also had wrong answers,
\* unrecognized answers and timeouts
C26_Witness ==
    /\ shift.cause = "done"
    /\ shift.x = RangeStop
    /\ shift.wrong >= 1
    /\ shift.other >= 1
    /\ shift.timeouts = 2
    /\ shift.reported = <<Reward * RangeStop - Penalty * shift.wrong>>

\* exit ended a shift whose total is below zero
C26_WitnessExit ==
    /\ shift.cause = "exit"
    /\ shift.correct = 0
    /\ shift.wrong = 2
    /\ shift.reported = <<0 - 4>>


-----------------------------------------------------------------------------
(* Properties of get_total_price, checked under SpecPrice *)

Priced == pc = "priced"

\* C27: with the bought-tax the price of a + b animals is the price of a
\* animals plus the price of b animals bought after them:
\* get_total_price(level, bought, a + b) = get_total_price(level, bought, a)
\* + get_total_price(level, bought + a, b); without it the price of a
\* animals is a times the price of one.
C27_Additive ==
    Priced =>
        /\ call.bt => ret.whole = ret.first + ret.second
        /\ ~call.bt => ret.first = call.amount * ret.one

\* level 3 with one animal bought before: two and two more cost 5460 and
\* 6660, four at once 12120
C27_Witness ==
    /\ Priced
    /\ call = [level |-> 3, bought |-> 1, amount |-> 2, more |-> 2, bt |-> TRUE]
    /\ ret.whole = 12120
    /\ ret.first = 5460
    /\ ret.second = 6660

\* level 3 without the bought-tax: three cost 3 times 2280
C27_WitnessNoTax ==
    /\ Priced
    /\ call.level = 3 /\ call.bought = 2 /\ call.amount = 3 /\ ~call.bt
    /\ ret.first = 6840
    /\ ret.one = 2280

=============================================================================
